---- MODULE Spec2Model ----
(***************************************************************************)
(* Request admission and shaping layer of the OpenWebNinja MCP server:     *)
(* the sliding-window RateLimiter, the parameter validators and the query  *)
(* sanitizer, the OpenWebNinjaService orchestrator (search, advancedSearch,*)
(* bulkSearch) and the three tool handlers, on the three entry points      *)
(* (stdio server, Vercel handler, Next.js route).                          *)
(*                                                                         *)
(* Strings are sequences of one-character strings.  Time is the value of   *)
(* Date.now() in abstract clock units; the limiter capacity (100 in every  *)
(* entry point), its window (60000 ms) and the bulk pause (100 ms) are     *)
(* scaled down to MaxRequests, WindowMs and DelayMs clock units.           *)
(***************************************************************************)
EXTENDS Integers, Sequences, FiniteSets, TLC

VARIABLES
    entry,      \* which entry point this process runs: "stdio", "vercel", "route"
    now,        \* Date.now()
    requests,   \* RateLimiter.requests: the stored timestamps
    recorded,   \* history: every timestamp recordRequest has pushed since construction/reset
    ret,        \* result of the method or function called last (limiter-level and
                \* function-level specifications)
    inv,        \* the tool invocations in progress, one per slot
    callTimes   \* history: issue times of the provider requests of tool invocations
                \* that are still inside the trailing window

vars == <<entry, now, requests, recorded, ret, inv, callTimes>>

----------------------------------------------------------------------------
(* Bounds of the model *)

MaxRequests == 2        \* RateLimiter capacity (scaled: the program passes 100)
WindowMs == 2           \* RateLimiter window (scaled: the program passes 60000)
MaxSlots == 2           \* tool invocations in progress at the same time
MaxBulk == 1            \* bulk_web_search invocations in progress at the same time
TimeSlack == 1          \* the clock runs up to WindowMs + DelayMs + TimeSlack
MaxStringLen == 3       \* length of the enumerated input strings of the sanitizer

(* Program constants *)

DelayMs == 1            \* bulkSearch pause between calls (scaled: delay(100))
MaxQueryLen == 500      \* query length ceiling
MaxBulkQueries == 20    \* queries array ceiling
MaxResults == 300       \* max_results ceiling
MaxResultsPerQuery == 50 \* max_results_per_query ceiling
DefaultPerQuery == 10
MinKeyLen == 10   \* bulkSearch: params.max_results_per_query || 10

\* The bulk handlers compare against a literal 100, the number every entry
\* point also passes to the RateLimiter constructor.
BulkCapacity == MaxRequests

MaxTime == WindowMs + DelayMs + TimeSlack

----------------------------------------------------------------------------
(* Characters and strings *)

UpperLetters == <<"A","B","C","D","E","F","G","H","I","J","K","L","M",
                  "N","O","P","Q","R","S","T","U","V","W","X","Y","Z">>
LowerLetters == <<"a","b","c","d","e","f","g","h","i","j","k","l","m",
                  "n","o","p","q","r","s","t","u","v","w","x","y","z">>

IsLowerLetter(c) == \E i \in 1..26 : LowerLetters[i] = c

ToLowerChar(c) ==
    IF \E i \in 1..26 : UpperLetters[i] = c
    THEN LowerLetters[CHOOSE i \in 1..26 : UpperLetters[i] = c]
    ELSE c

ToLowerCase(s) == [i \in 1..Len(s) |-> ToLowerChar(s[i])]

\* /\s/ restricted to the whitespace characters of the model's inputs
IsSpace(c) == c \in {" ", "\t", "\n"}

\* the character class [<>"'] of sanitizeQuery
IsDangerous(c) == c \in {"<", ">", "\"", "'"}

RECURSIVE TrimStart(_)
TrimStart(s) ==
    IF s # <<>> /\ IsSpace(Head(s)) THEN TrimStart(Tail(s)) ELSE s

RECURSIVE TrimEnd(_)
TrimEnd(s) ==
    IF s # <<>> /\ IsSpace(s[Len(s)]) THEN TrimEnd(SubSeq(s, 1, Len(s) - 1)) ELSE s

\* String.prototype.trim
Trim(s) == TrimEnd(TrimStart(s))

\* s.replace(/[<>"']/g, '')
RemoveDangerous(s) == SelectSeq(s, LAMBDA c : ~IsDangerous(c))

\* s.replace(/\s+/g, ' ')
RECURSIVE CollapseSpaces(_)
CollapseSpaces(s) ==
    IF s = <<>> THEN <<>>
    ELSE IF IsSpace(Head(s))
         THEN <<" ">> \o CollapseSpaces(TrimStart(s))
         ELSE <<Head(s)>> \o CollapseSpaces(Tail(s))

\* faulty variant: runs of whitespace are kept
sanitizeQuery_NoCollapse(query) == Trim(RemoveDangerous(query))

sanitizeQuery(query) == Trim(CollapseSpaces(RemoveDangerous(query)))


----------------------------------------------------------------------------
(* Untyped JavaScript values, as far as the validators look at them.       *)
(* t is the value's kind; s, n, int, b, items carry the payload of a       *)
(* string, number (int: Number.isInteger), boolean and array.              *)

Undef == [t |-> "undef", s |-> <<>>, n |-> 0, int |-> FALSE, b |-> FALSE, items |-> <<>>]
Null == [Undef EXCEPT !.t = "null"]
Str(str) == [Undef EXCEPT !.t = "str", !.s = str]
Num(k) == [Undef EXCEPT !.t = "num", !.n = k, !.int = TRUE]
Frac(k) == [Undef EXCEPT !.t = "num", !.n = k]          \* k + 0.5
Bool(v) == [Undef EXCEPT !.t = "bool", !.b = v]
Arr(elems) == [Undef EXCEPT !.t = "arr", !.items = elems]   \* elements: [t, s]
Elem(str) == [t |-> "str", s |-> str]
NumElem == [t |-> "num", s |-> <<>>]

\* JavaScript truthiness: !v is ~Truthy(v)
Truthy(v) ==
    CASE v.t = "undef" -> FALSE
      [] v.t = "null" -> FALSE
      [] v.t = "str" -> v.s # <<>>
      [] v.t = "num" -> v.n # 0 \/ ~v.int
      [] v.t = "bool" -> v.b
      [] OTHER -> TRUE

\* A raw tool argument: t is "obj" for a record whose absent fields are Undef,
\* otherwise the kind of a value that is no record (null, undefined, a string).
NoFields ==
    [t |-> "obj", query |-> Undef, max_results |-> Undef, region |-> Undef,
     safe_search |-> Undef, site_restrict |-> Undef, file_type |-> Undef,
     date_range |-> Undef, queries |-> Undef, max_results_per_query |-> Undef]
NullParams == [NoFields EXCEPT !.t = "null"]
UndefParams == [NoFields EXCEPT !.t = "undef"]

\* !params || typeof params !== 'object'
NotAnObject(params) == params.t # "obj"

----------------------------------------------------------------------------
(* ValidationError; field "" is an undefined field *)

Rejected(f) == [ok |-> FALSE, field |-> f, v |-> NoFields]
Accepted(validated) == [ok |-> TRUE, field |-> "", v |-> validated]

AllowedTypes ==
    { <<"p","d","f">>, <<"d","o","c">>, <<"d","o","c","x">>, <<"p","p","t">>,
      <<"p","p","t","x">>, <<"x","l","s">>, <<"x","l","s","x">>, <<"t","x","t">>,
      <<"r","t","f">> }

PastDay == <<"p","a","s","t","_","d","a","y">>
PastWeek == <<"p","a","s","t","_","w","e","e","k">>
PastMonth == <<"p","a","s","t","_","m","o","n","t","h">>
PastYear == <<"p","a","s","t","_","y","e","a","r">>
AllowedRanges == {PastDay, PastWeek, PastMonth, PastYear}

\* /^[a-z]{2}$/.test(region)
RegionPattern(s) == Len(s) = 2 /\ IsLowerLetter(s[1]) /\ IsLowerLetter(s[2])

\* faulty variant: any number passes for an integer
NotInteger_TypeOnly(v) == v.t # "num"

\* typeof v !== 'number' || !Number.isInteger(v)
NotInteger(v) == v.t # "num" \/ ~v.int

\* the region and safe_search blocks shared by both validators; each returns
\* the field rejected, or "" when the value is absent or passes
RegionError(params) ==
    IF params.region.t = "undef" THEN ""
    ELSE IF params.region.t # "str" THEN "region"
    ELSE IF ~RegionPattern(params.region.s) THEN "region"
    ELSE ""

SafeSearchError(params) ==
    IF params.safe_search.t = "undef" THEN ""
    ELSE IF params.safe_search.t # "bool" THEN "safe_search"
    ELSE ""

\* faulty variant: the normalised region carries a trailing blank
NormRegion_Padded(params) ==
    IF params.region.t = "undef" THEN Undef
    ELSE Str(ToLowerCase(params.region.s) \o <<" ">>)

NormRegion(params) ==
    IF params.region.t = "undef" THEN Undef ELSE Str(ToLowerCase(params.region.s))

validateSearchParams(params) ==
    IF NotAnObject(params) THEN Rejected("")
    ELSE IF ~Truthy(params.query) \/ params.query.t # "str" THEN Rejected("query")
    ELSE IF Len(Trim(params.query.s)) = 0 THEN Rejected("query")
    ELSE IF Len(params.query.s) > MaxQueryLen THEN Rejected("query")
    ELSE IF params.max_results.t # "undef" /\ NotInteger(params.max_results)
         THEN Rejected("max_results")
    ELSE IF params.max_results.t # "undef"
            /\ (params.max_results.n < 1 \/ params.max_results.n > MaxResults)
         THEN Rejected("max_results")
    ELSE IF RegionError(params) # "" THEN Rejected(RegionError(params))
    ELSE IF SafeSearchError(params) # "" THEN Rejected(SafeSearchError(params))
    ELSE IF params.site_restrict.t # "undef" /\ params.site_restrict.t # "str"
         THEN Rejected("site_restrict")
    ELSE IF params.site_restrict.t # "undef" /\ Len(Trim(params.site_restrict.s)) = 0
         THEN Rejected("site_restrict")
    ELSE IF params.file_type.t # "undef" /\ params.file_type.t # "str"
         THEN Rejected("file_type")
    ELSE IF params.file_type.t # "undef"
            /\ ToLowerCase(params.file_type.s) \notin AllowedTypes
         THEN Rejected("file_type")
    ELSE IF params.date_range.t # "undef" /\ params.date_range.t # "str"
         THEN Rejected("date_range")
    ELSE IF params.date_range.t # "undef" /\ params.date_range.s \notin AllowedRanges
         THEN Rejected("date_range")
    ELSE Accepted(
        [NoFields EXCEPT
            !.query = Str(Trim(params.query.s)),
            !.max_results = params.max_results,
            !.region = NormRegion(params),
            !.safe_search = params.safe_search,
            !.site_restrict =
                IF params.site_restrict.t = "undef" THEN Undef
                ELSE Str(Trim(params.site_restrict.s)),
            !.file_type =
                IF params.file_type.t = "undef" THEN Undef
                ELSE Str(ToLowerCase(params.file_type.s)),
            !.date_range = params.date_range])

\* the per-element loop of validateBulkSearchParams: TRUE when some element
\* is rejected
BadElement(e) ==
    \/ e.t # "str"
    \/ Len(Trim(e.s)) = 0
    \/ Len(e.s) > MaxQueryLen

\* faulty variant: the ceiling of the queries array is one too low
validateBulkSearchParams_OffByOne(params) ==
    IF NotAnObject(params) THEN Rejected("")
    ELSE IF ~Truthy(params.queries) \/ params.queries.t # "arr" THEN Rejected("queries")
    ELSE IF Len(params.queries.items) = 0 THEN Rejected("queries")
    ELSE IF Len(params.queries.items) >= MaxBulkQueries THEN Rejected("queries")
    ELSE IF \E i \in 1..Len(params.queries.items) : BadElement(params.queries.items[i])
         THEN Rejected("queries")
    ELSE IF params.max_results_per_query.t # "undef"
            /\ NotInteger(params.max_results_per_query)
         THEN Rejected("max_results_per_query")
    ELSE IF params.max_results_per_query.t # "undef"
            /\ (params.max_results_per_query.n < 1
                \/ params.max_results_per_query.n > MaxResultsPerQuery)
         THEN Rejected("max_results_per_query")
    ELSE IF RegionError(params) # "" THEN Rejected(RegionError(params))
    ELSE IF SafeSearchError(params) # "" THEN Rejected(SafeSearchError(params))
    ELSE Accepted(
        [NoFields EXCEPT
            !.queries = Arr([i \in 1..Len(params.queries.items) |->
                                Elem(Trim(params.queries.items[i].s))]),
            !.max_results_per_query = params.max_results_per_query,
            !.region = NormRegion(params),
            !.safe_search = params.safe_search])

validateBulkSearchParams(params) ==
    IF NotAnObject(params) THEN Rejected("")
    ELSE IF ~Truthy(params.queries) \/ params.queries.t # "arr" THEN Rejected("queries")
    ELSE IF Len(params.queries.items) = 0 THEN Rejected("queries")
    ELSE IF Len(params.queries.items) > MaxBulkQueries THEN Rejected("queries")
    ELSE IF \E i \in 1..Len(params.queries.items) : BadElement(params.queries.items[i])
         THEN Rejected("queries")
    ELSE IF params.max_results_per_query.t # "undef"
            /\ NotInteger(params.max_results_per_query)
         THEN Rejected("max_results_per_query")
    ELSE IF params.max_results_per_query.t # "undef"
            /\ (params.max_results_per_query.n < 1
                \/ params.max_results_per_query.n > MaxResultsPerQuery)
         THEN Rejected("max_results_per_query")
    ELSE IF RegionError(params) # "" THEN Rejected(RegionError(params))
    ELSE IF SafeSearchError(params) # "" THEN Rejected(SafeSearchError(params))
    ELSE Accepted(
        [NoFields EXCEPT
            !.queries = Arr([i \in 1..Len(params.queries.items) |->
                                Elem(Trim(params.queries.items[i].s))]),
            !.max_results_per_query = params.max_results_per_query,
            !.region = NormRegion(params),
            !.safe_search = params.safe_search])

----------------------------------------------------------------------------
(* RateLimiter *)

\* faulty variant: a timestamp exactly windowMs old is kept
Prune_Inclusive(reqs, t) == SelectSeq(reqs, LAMBDA time : t - time <= WindowMs)

\* this.requests.filter(time => now - time < this.windowMs)
Prune(reqs, t) == SelectSeq(reqs, LAMBDA time : t - time < WindowMs)

\* faulty variant: every request is admitted
canMakeRequest_Always(reqs, t) == [requests |-> Prune(reqs, t), result |-> TRUE]

\* faulty variant: the capacity test admits one request too many
canMakeRequest_OffByOne(reqs, t) ==
    [requests |-> Prune(reqs, t), result |-> Len(Prune(reqs, t)) <= MaxRequests]

\* canMakeRequest: the pruned sequence it stores, and the value it returns
canMakeRequest(reqs, t) ==
    [requests |-> Prune(reqs, t), result |-> Len(Prune(reqs, t)) < MaxRequests]

\* recordRequest: the sequence it stores
recordRequest(reqs, t) == Append(reqs, t)

\* Math.min(...this.requests), for a non-empty sequence
MinOf(reqs) == CHOOSE m \in {reqs[i] : i \in 1..Len(reqs)} :
                   \A i \in 1..Len(reqs) : m <= reqs[i]

Max0(x) == IF x > 0 THEN x ELSE 0

\* faulty variant: the result is not floored at 0
getTimeUntilReset_NoFloor(reqs, t) ==
    IF Len(reqs) = 0 THEN 0
    ELSE WindowMs - (t - MinOf(reqs))

\* getTimeUntilReset: the value it returns (it stores nothing)
getTimeUntilReset(reqs, t) ==
    IF Len(reqs) = 0 THEN 0
    ELSE Max0(WindowMs - (t - MinOf(reqs)))

\* getCurrentCount: the pruned sequence it stores, and the value it returns
getCurrentCount(reqs, t) ==
    [requests |-> Prune(reqs, t), result |-> Len(Prune(reqs, t))]

----------------------------------------------------------------------------
(* The provider, as client.get sees it: the promise resolves with a        *)
(* response (whose body may be null or malformed) or rejects with a value. *)

Response(isNull, hasArray, items, total) ==
    [kind |-> "resolved", bodyNull |-> isNull, hasArray |-> hasArray,
     items |-> items, total |-> total,
     thrown |-> "", hasResponse |-> FALSE, respMessage |-> "", message |-> "",
     status |-> 0]

Rejection(thrown, hasResponse, respMessage, message, status) ==
    [kind |-> "rejected", bodyNull |-> FALSE, hasArray |-> FALSE,
     items |-> <<>>, total |-> 0,
     thrown |-> thrown, hasResponse |-> hasResponse, respMessage |-> respMessage,
     message |-> message, status |-> status]

OkItems == Response(FALSE, TRUE, <<"r1", "r2">>, 5)   \* two items, total_results 5
OkEmpty == Response(FALSE, TRUE, <<>>, 0)             \* data: [], no total_results
Malformed == Response(FALSE, FALSE, <<>>, 0)          \* a body without a data array
NullBody == Response(TRUE, FALSE, <<>>, 0)            \* response.data is null
HttpError == Rejection("error", TRUE, "Too Many Requests", "Request failed", 429)
NetworkError == Rejection("error", FALSE, "", "timeout of 30000ms exceeded", 0)
ThrownUndefined == Rejection("undef", FALSE, "", "", 0)   \* a rejection with no value

ProviderOutcomes ==
    {OkItems, OkEmpty, Malformed, NullBody, HttpError, NetworkError, ThrownUndefined}

\* what reading a property of null throws
TypeErrorValue == Rejection("error", FALSE, "", "Cannot read properties of null", 0)

----------------------------------------------------------------------------
(* OpenWebNinjaService *)

NoResult ==
    [threw |-> FALSE, success |-> FALSE, hasData |-> FALSE, results |-> <<>>,
     total_results |-> 0, query |-> <<>>, searches |-> <<>>,
     hasError |-> FALSE, message |-> "", status |-> 0]

\* the promise rejects: an exception leaves the method
Throws == [NoResult EXCEPT !.threw = TRUE]

\* parseError: error.response is read first, which throws for null/undefined
parseError(error) ==
    IF error.thrown \in {"undef", "null"} THEN Throws
    ELSE IF error.hasResponse
    THEN [NoResult EXCEPT
            !.hasError = TRUE,
            !.message = IF error.respMessage # "" THEN error.respMessage
                        ELSE IF error.message # "" THEN error.message
                        ELSE "API request failed",
            !.status = error.status]
    ELSE [NoResult EXCEPT
            !.hasError = TRUE,
            !.message = IF error.message # "" THEN error.message
                        ELSE "Unknown error occurred"]

\* parseSearchResponse, for a body that is not null
parseSearchResponse(response, originalQuery) ==
    LET results == IF response.hasArray
                   THEN [i \in 1..Len(response.items) |->
                            [title |-> response.items[i], position |-> i]]
                   ELSE <<>>
    IN [NoResult EXCEPT
            !.success = TRUE, !.hasData = TRUE, !.results = results,
            !.total_results = IF response.total # 0 THEN response.total
                              ELSE Len(results),
            !.query = originalQuery]

Min2(a, b) == IF a < b THEN a ELSE b

\* the query-string parameters search() sends: q, num, gl, safe
\* (num 0, gl <<>> and safe "" stand for a parameter that is not sent)
searchRequest(params) ==
    [q |-> params.query.s,
     num |-> IF Truthy(params.max_results)
             THEN Min2(params.max_results.n, MaxResults) ELSE 0,
     gl |-> IF Truthy(params.region) THEN params.region.s ELSE <<>>,
     safe |-> IF params.safe_search.t # "undef"
              THEN (IF Truthy(params.safe_search) THEN "active" ELSE "off")
              ELSE ""]

\* search(), from the point where client.get settles with `outcome`
search(params, outcome) ==
    IF outcome.kind = "resolved" /\ ~outcome.bodyNull
    THEN parseSearchResponse(outcome, params.query.s)
    ELSE parseError(IF outcome.kind = "resolved" THEN TypeErrorValue ELSE outcome)

SiteOp == <<" ", "s", "i", "t", "e", ":">>
FiletypeOp == <<" ", "f", "i", "l", "e", "t", "y", "p", "e", ":">>

\* a key every object literal inherits from Object.prototype, and the text a
\* template literal makes of its value (the Object constructor function)
ConstructorKey == <<"c", "o", "n", "s", "t", "r", "u", "c", "t", "o", "r">>
NativeCodeText ==
    <<"f", "u", "n", "c", "t", "i", "o", "n", " ", "O", "b", "j", "e", "c", "t", "(", ")", " ", "{", " ", "[", "n", "a", "t", "i", "v", "e", " ", "c", "o", "d", "e", "]", " ", "}">>

\* mapDateRange: dateMap[dateRange] || null; <<>> is null.  The lookup in the
\* object literal also finds inherited keys.
mapDateRange(dateRange) ==
    CASE dateRange = PastDay -> <<"a", "f", "t", "e", "r", ":", "1", "d">>
      [] dateRange = PastWeek -> <<"a", "f", "t", "e", "r", ":", "1", "w">>
      [] dateRange = PastMonth -> <<"a", "f", "t", "e", "r", ":", "1", "m">>
      [] dateRange = PastYear -> <<"a", "f", "t", "e", "r", ":", "1", "y">>
      [] dateRange = ConstructorKey -> NativeCodeText
      [] OTHER -> <<>>

\* advancedSearch: the params it hands to search()
advancedSearchParams(params) ==
    LET q1 == params.query.s
              \o (IF Truthy(params.site_restrict)
                  THEN SiteOp \o params.site_restrict.s ELSE <<>>)
        q2 == q1 \o (IF Truthy(params.file_type)
                     THEN FiletypeOp \o params.file_type.s ELSE <<>>)
        q3 == q2 \o (IF Truthy(params.date_range)
                        /\ mapDateRange(params.date_range.s) # <<>>
                     THEN <<" ">> \o mapDateRange(params.date_range.s) ELSE <<>>)
    IN [params EXCEPT !.query = Str(q3)]

\* bulkSearch: the params of the search() call for queries[j]
bulkSubParams(params, j) ==
    [NoFields EXCEPT
        !.query = Str(params.queries.items[j].s),
        !.max_results = IF Truthy(params.max_results_per_query)
                        THEN params.max_results_per_query
                        ELSE Num(DefaultPerQuery),
        !.region = params.region,
        !.safe_search = params.safe_search]

\* faulty variant: all sub-queries are started at once
bulkFirstCalls_All(params) == 1..Len(params.queries.items)

\* bulkSearch: which sub-queries it has in flight when it starts
bulkFirstCalls(params) == {1}

\* bulkSearch: the entry pushed for queries[j] once its search() returned r
bulkEntry(params, j, r) ==
    IF r.success /\ r.hasData
    THEN [query |-> params.queries.items[j].s, results |-> r.results,
          total_results |-> r.total_results]
    ELSE [query |-> params.queries.items[j].s, results |-> <<>>,
          total_results |-> 0]

\* params.queries.indexOf(query), 1-based
IndexOf(queries, query) ==
    CHOOSE i \in 1..Len(queries) :
        /\ queries[i].s = query
        /\ \A k \in 1..(i - 1) : queries[k].s # query

\* bulkSearch: whether it pauses after the call for queries[j]
\* (queries.indexOf(query) < queries.length - 1, in 0-based indices)
bulkPauses(params, j) ==
    IndexOf(params.queries.items, params.queries.items[j].s)
        < Len(params.queries.items)

\* bulkSearch: the value it returns after the loop
bulkSuccess(searches) ==
    [NoResult EXCEPT !.success = TRUE, !.hasData = TRUE, !.searches = searches]

----------------------------------------------------------------------------
(* Tool handlers: the synchronous part of handle(), up to its first await. *)
(* Each returns the limiter's new timestamps, whether the rate check and   *)
(* the validation passed, the outcome when the handler returns at once,    *)
(* and otherwise (issue) the params it hands to the service.               *)

HandlerReturn(reqs, outcome, admitted) ==
    [requests |-> reqs, outcome |-> outcome, admitted |-> admitted,
     validated |-> FALSE, issue |-> FALSE, vp |-> NoFields]

HandlerCall(reqs, vp) ==
    [requests |-> reqs, outcome |-> "", admitted |-> TRUE,
     validated |-> TRUE, issue |-> TRUE, vp |-> vp]

\* faulty variant: the request is recorded before the parameters are validated
WebSearchHandler_handle_RecordFirst(params, reqs, t) ==
    LET can == canMakeRequest(reqs, t)
        v == validateSearchParams(params)
    IN IF ~can.result THEN HandlerReturn(can.requests, "rate_limited", FALSE)
       ELSE IF ~v.ok
            THEN HandlerReturn(recordRequest(can.requests, t), "validation_error", TRUE)
       ELSE HandlerCall(recordRequest(can.requests, t),
                        [v.v EXCEPT !.query = Str(sanitizeQuery(v.v.query.s))])

\* faulty variant: the search is made although validation failed
WebSearchHandler_handle_NoStop(params, reqs, t) ==
    LET can == canMakeRequest(reqs, t)
        v == validateSearchParams(params)
    IN IF ~can.result THEN HandlerReturn(can.requests, "rate_limited", FALSE)
       ELSE [requests |-> recordRequest(can.requests, t),
             outcome |-> IF v.ok THEN "" ELSE "validation_error",
             admitted |-> TRUE, validated |-> v.ok, issue |-> TRUE,
             vp |-> [v.v EXCEPT !.query = Str(sanitizeQuery(v.v.query.s))]]

\* WebSearchHandler.handle
WebSearchHandler_handle(params, reqs, t) ==
    LET can == canMakeRequest(reqs, t)
        v == validateSearchParams(params)
    IN IF ~can.result THEN HandlerReturn(can.requests, "rate_limited", FALSE)
       ELSE IF ~v.ok THEN HandlerReturn(can.requests, "validation_error", TRUE)
       ELSE HandlerCall(recordRequest(can.requests, t),
                        [v.v EXCEPT !.query = Str(sanitizeQuery(v.v.query.s))])

\* AdvancedSearchHandler.handle
AdvancedSearchHandler_handle(params, reqs, t) ==
    LET can == canMakeRequest(reqs, t)
        v == validateSearchParams(params)
    IN IF ~can.result THEN HandlerReturn(can.requests, "rate_limited", FALSE)
       ELSE IF ~v.ok THEN HandlerReturn(can.requests, "validation_error", TRUE)
       ELSE HandlerCall(recordRequest(can.requests, t),
                        [v.v EXCEPT !.query = Str(sanitizeQuery(v.v.query.s))])

\* faulty variant: every bulk request is estimated as one request
estimatedRequests_One(params) == 1

\* params.queries?.length || 1, for params that are not null or undefined
estimatedRequests(params) ==
    LET length == CASE params.t # "obj" -> 0
                    [] params.queries.t = "arr" -> Len(params.queries.items)
                    [] params.queries.t = "str" -> Len(params.queries.s)
                    [] OTHER -> 0
    IN IF length # 0 THEN length ELSE 1

\* BulkSearchHandler.handle
BulkSearchHandler_handle(params, reqs, t) ==
    IF params.t \in {"null", "undef"}
    THEN HandlerReturn(reqs, "unexpected_error", FALSE)  \* TypeError: params.queries
    ELSE
    LET count == getCurrentCount(reqs, t)
        v == validateBulkSearchParams(params)
    IN IF count.result + estimatedRequests(params) > BulkCapacity
       THEN HandlerReturn(count.requests, "rate_limited", FALSE)
       ELSE IF ~v.ok THEN HandlerReturn(count.requests, "validation_error", TRUE)
       ELSE HandlerCall(count.requests,
                [v.v EXCEPT !.queries =
                    Arr([i \in 1..Len(v.v.queries.items) |->
                            Elem(sanitizeQuery(v.v.queries.items[i].s))])])

\* handleToolCall of the Next.js route, case 'web_search' and
\* case 'advanced_web_search'
Route_search(params, reqs, t) ==
    LET can == canMakeRequest(reqs, t)
        v == validateSearchParams(params)
    IN IF ~can.result THEN HandlerReturn(can.requests, "rate_limited", FALSE)
       ELSE IF ~v.ok THEN HandlerReturn(can.requests, "validation_error", TRUE)
       ELSE HandlerCall(recordRequest(can.requests, t), v.v)

\* handleToolCall of the Next.js route, case 'bulk_web_search'
Route_bulk(params, reqs, t) ==
    IF params.t \in {"null", "undef"}
    THEN HandlerReturn(reqs, "unexpected_error", FALSE)  \* TypeError: args.queries
    ELSE
    LET count == getCurrentCount(reqs, t)
        v == validateBulkSearchParams(params)
    IN IF count.result + estimatedRequests(params) > BulkCapacity
       THEN HandlerReturn(count.requests, "rate_limited", FALSE)
       ELSE IF ~v.ok THEN HandlerReturn(count.requests, "validation_error", TRUE)
       ELSE HandlerCall(count.requests, v.v)

Tools == {"web_search", "advanced_web_search", "bulk_web_search"}

\* the dispatch of each entry point (the Vercel POST handler passes params || {})
Dispatch(ep, tool, params, reqs, t) ==
    LET args == IF ep = "vercel" /\ params.t \in {"null", "undef"}
                THEN NoFields ELSE params
    IN CASE ep = "route" /\ tool = "bulk_web_search" -> Route_bulk(args, reqs, t)
         [] ep = "route" -> Route_search(args, reqs, t)
         [] tool = "web_search" -> WebSearchHandler_handle(args, reqs, t)
         [] tool = "advanced_web_search" -> AdvancedSearchHandler_handle(args, reqs, t)
         [] OTHER -> BulkSearchHandler_handle(args, reqs, t)

\* the params of the search() call an invocation makes for its j-th request
callParams(tool, vp, j) ==
    CASE tool = "web_search" -> vp
      [] tool = "advanced_web_search" -> advancedSearchParams(vp)
      [] OTHER -> bulkSubParams(vp, j)

\* how a handler reports the service's result
Report(r) ==
    IF r.threw THEN "unexpected_error"
    ELSE IF ~r.success THEN "failed"
    ELSE IF ~r.hasData \/ (Len(r.results) = 0 /\ Len(r.searches) = 0) THEN "empty"
    ELSE "results"

----------------------------------------------------------------------------
(* Inputs *)

Q(str) == [NoFields EXCEPT !.query = Str(str)]
Queries(list) == [NoFields EXCEPT !.queries = Arr(list)]

WebInputs ==
    { Q(<<"<", "a", ">", " ", " ", "b">>),
      Q(<<" ">>) }

AdvancedInputs ==
    { [Q(<<"a">>) EXCEPT !.site_restrict = Str(<<"x", "\"", ".", "c">>),
                         !.file_type = Str(<<"P", "D", "F">>),
                         !.date_range = Str(PastYear)],
      [Q(<<"a">>) EXCEPT !.file_type = Str(<<"e", "x", "e">>)] }

BulkInputs ==
    { Queries(<<Elem(<<"'", "a">>), Elem(<<"b">>)>>),
      Queries(<<Elem(<<"a">>), Elem(<<"a">>)>>),
      Queries(<<Elem(<<"a">>), Elem(<<" ">>)>>),
      Queries(<<>>),
      UndefParams }

InputsOf(tool) ==
    CASE tool = "web_search" -> WebInputs
      [] tool = "advanced_web_search" -> AdvancedInputs
      [] OTHER -> BulkInputs

----------------------------------------------------------------------------
(* State *)

Slots == 1..MaxSlots

Idle ==
    [pc |-> "idle", tool |-> "", admitted |-> FALSE, validated |-> FALSE,
     vp |-> NoFields, inflight |-> {}, issued |-> 0, searches |-> <<>>,
     subs |-> <<>>,
     pauses |-> 0, delayLeft |-> 0, countBefore |-> 0, windowLeft |-> 0,
     outcome |-> "", result |-> NoResult]

NoRet == [op |-> "none", ok |-> FALSE, val |-> 0]

\* history: what the search() call of a sub-query returned
Sub(r) ==
    [success |-> r.success /\ r.hasData, results |-> r.results,
     total_results |-> r.total_results]

\* the request client.get sends for the j-th call of the invocation in slot s
CallOf(s, j) ==
    LET rq == searchRequest(callParams(inv[s].tool, inv[s].vp, j))
    IN [slot |-> s, tool |-> inv[s].tool, j |-> j, q |-> rq.q, num |-> rq.num,
        gl |-> rq.gl, safe |-> rq.safe]

\* the provider requests in flight
InFlight == UNION {{CallOf(s, j) : j \in inv[s].inflight} : s \in Slots}

\* the provider calls still inside the trailing window at time t
InWindow(times, t) == SelectSeq(times, LAMBDA c : t - c < WindowMs)

\* the history of provider calls is kept up to one call beyond the capacity
Issued(times, t, n) ==
    IF Len(times) + n <= MaxRequests + 1 THEN times \o [k \in 1..n |-> t]
    ELSE times \o [k \in 1..(MaxRequests + 1 - Len(times)) |-> t]

\* a response is delivered before anything else happens
NoneDone == \A s \in Slots : inv[s].pc # "done"

Init ==
    /\ entry \in {"stdio", "vercel", "route"}
    /\ now = 0
    /\ requests = <<>>
    /\ recorded = <<>>
    /\ ret = NoRet
    /\ inv = [s \in Slots |-> Idle]
    /\ callTimes = <<>>

\* the clock advances; the timers of the pausing bulk searches run down
\* (delayLeft), and so does the time for which every timestamp a bulk search
\* found or would have recorded at admission is inside the window (windowLeft)
Tick ==
    /\ NoneDone
    /\ now < MaxTime
    /\ now' = now + 1
    /\ callTimes' = InWindow(callTimes, now + 1)
    /\ ret' = NoRet
    /\ inv' = [s \in Slots |->
                [inv[s] EXCEPT !.delayLeft = Max0(@ - 1), !.windowLeft = Max0(@ - 1)]]
    /\ UNCHANGED <<entry, requests, recorded>>

\* a tool invocation arrives and runs up to its first await
Invoke(s, tool, params) ==
    LET h == Dispatch(entry, tool, params, requests, now)
        first == IF tool = "bulk_web_search" THEN bulkFirstCalls(h.vp) ELSE {1}
        before == Prune(requests, now)
    IN /\ NoneDone
       /\ inv[s].pc = "idle"
       /\ \A k \in 1..(s - 1) : inv[k].pc # "idle"
       /\ tool = "bulk_web_search" =>
             Cardinality({k \in Slots : inv[k].tool = "bulk_web_search"}) < MaxBulk
       /\ requests' = h.requests
       /\ inv' = [inv EXCEPT ![s] =
            [Idle EXCEPT
                !.tool = tool, !.admitted = h.admitted, !.validated = h.validated,
                !.vp = h.vp, !.outcome = h.outcome,
                !.countBefore = IF tool = "bulk_web_search" /\ h.issue
                                THEN Len(before) ELSE 0,
                !.windowLeft = IF tool = "bulk_web_search" /\ h.issue
                               THEN getTimeUntilReset(Append(before, now), now)
                               ELSE 0,
                !.pc = IF h.issue THEN "await" ELSE "done",
                !.inflight = IF h.issue THEN first ELSE {},
                !.issued = IF h.issue THEN Cardinality(first) ELSE 0]]
       /\ callTimes' = IF h.issue THEN Issued(callTimes, now, Cardinality(first))
                       ELSE callTimes
       /\ UNCHANGED <<entry, now, recorded, ret>>

\* the provider call of a web_search or advanced_web_search settles; the
\* handler reports and returns
SettleSearch(s, outcome) ==
    LET rec == inv[s]
        r == search(callParams(rec.tool, rec.vp, 1), outcome)
    IN /\ NoneDone
       /\ rec.pc = "await"
       /\ rec.tool # "bulk_web_search"
       /\ inv' = [inv EXCEPT ![s] =
                    [rec EXCEPT !.pc = "done", !.inflight = {}, !.result = r,
                                !.outcome = Report(r)]]
       /\ UNCHANGED <<entry, now, requests, recorded, ret, callTimes>>

\* bulkSearch issues the call for queries[j], or returns after the last one
BulkContinue(s, rec, j) ==
    IF j <= Len(rec.vp.queries.items)
    THEN /\ inv' = [inv EXCEPT ![s] =
                      [rec EXCEPT !.pc = "await", !.inflight = {j},
                                  !.issued = rec.issued + 1]]
         /\ callTimes' = Issued(callTimes, now, 1)
    ELSE /\ inv' = [inv EXCEPT ![s] =
                      [rec EXCEPT !.pc = "done", !.inflight = {},
                                  !.result = bulkSuccess(rec.searches),
                                  !.outcome = Report(bulkSuccess(rec.searches))]]
         /\ UNCHANGED callTimes

\* the provider call for queries[j] of a bulk search settles: the entry is
\* pushed, then bulkSearch pauses, goes on to the next query, or returns
SettleBulk(s, j, outcome) ==
    LET rec == inv[s]
        r == search(bulkSubParams(rec.vp, j), outcome)
        pushed == [rec EXCEPT !.searches = Append(rec.searches,
                                                 bulkEntry(rec.vp, j, r)),
                              !.subs = Append(rec.subs, Sub(r)),
                              !.inflight = rec.inflight \ {j}]
    IN /\ NoneDone
       /\ rec.pc = "await"
       /\ rec.tool = "bulk_web_search"
       /\ j \in rec.inflight
       /\ IF r.threw
          THEN \* the catch of bulkSearch
               /\ inv' = [inv EXCEPT ![s] =
                    [rec EXCEPT !.pc = "done", !.inflight = rec.inflight \ {j},
                                !.subs = Append(rec.subs, Sub(r)),
                                !.result = parseError(TypeErrorValue),
                                !.outcome = Report(parseError(TypeErrorValue))]]
               /\ UNCHANGED callTimes
          ELSE IF bulkPauses(rec.vp, j)
          THEN /\ inv' = [inv EXCEPT ![s] =
                    [pushed EXCEPT !.pc = "delay", !.pauses = rec.pauses + 1,
                                   !.delayLeft = DelayMs]]
               /\ UNCHANGED callTimes
          ELSE IF pushed.inflight # {}
          THEN /\ inv' = [inv EXCEPT ![s] = pushed]
               /\ UNCHANGED callTimes
          ELSE BulkContinue(s, pushed, j + 1)
       /\ UNCHANGED <<entry, now, requests, recorded, ret>>

\* the timer of delay(100) fires and the loop of bulkSearch goes on
DelayDone(s) ==
    LET rec == inv[s]
    IN /\ NoneDone
       /\ rec.pc = "delay"
       /\ rec.delayLeft = 0
       /\ BulkContinue(s, rec, Len(rec.searches) + 1)
       /\ UNCHANGED <<entry, now, requests, recorded, ret>>

\* the response is delivered and the slot is free again
Return(s) ==
    /\ inv[s].pc = "done"
    /\ inv' = [inv EXCEPT ![s] = Idle]
    /\ UNCHANGED <<entry, now, requests, recorded, ret, callTimes>>

Next ==
    \/ Tick
    \/ \E s \in Slots, tool \in Tools : \E params \in InputsOf(tool) :
          Invoke(s, tool, params)
    \/ \E s \in Slots, outcome \in ProviderOutcomes : SettleSearch(s, outcome)
    \/ \E s \in Slots, j \in 1..MaxBulkQueries, outcome \in ProviderOutcomes :
          SettleBulk(s, j, outcome)
    \/ \E s \in Slots : DelayDone(s)
    \/ \E s \in Slots : Return(s)

Spec == Init /\ [][Next]_vars

----------------------------------------------------------------------------
(* The RateLimiter on its own: any caller, any order of its methods *)

Returned(op, ok, val) == [op |-> op, ok |-> ok, val |-> val]

CallCanMakeRequest ==
    /\ requests' = canMakeRequest(requests, now).requests
    /\ ret' = Returned("canMakeRequest", canMakeRequest(requests, now).result, 0)
    /\ UNCHANGED <<entry, now, recorded, inv, callTimes>>

CallRecordRequest ==
    /\ Len(recorded) <= MaxRequests
    /\ requests' = recordRequest(requests, now)
    /\ recorded' = Append(recorded, now)
    /\ ret' = Returned("recordRequest", FALSE, 0)
    /\ UNCHANGED <<entry, now, inv, callTimes>>

CallGetTimeUntilReset ==
    /\ ret' = Returned("getTimeUntilReset", FALSE, getTimeUntilReset(requests, now))
    /\ UNCHANGED <<entry, now, requests, recorded, inv, callTimes>>

CallGetCurrentCount ==
    /\ requests' = getCurrentCount(requests, now).requests
    /\ ret' = Returned("getCurrentCount", FALSE, getCurrentCount(requests, now).result)
    /\ UNCHANGED <<entry, now, recorded, inv, callTimes>>

CallReset ==
    /\ requests' = <<>>
    /\ recorded' = <<>>
    /\ ret' = Returned("reset", FALSE, 0)
    /\ UNCHANGED <<entry, now, inv, callTimes>>

NextLimiter ==
    \/ Tick
    \/ CallCanMakeRequest
    \/ CallRecordRequest
    \/ CallGetTimeUntilReset
    \/ CallGetCurrentCount
    \/ CallReset

SpecLimiter == Init /\ [][NextLimiter]_vars

----------------------------------------------------------------------------
(* Function-level specification: the validators, the sanitizer, the query  *)
(* composition of advancedSearch and a handler's first step are called on  *)
(* inputs drawn from bounded sets, one call per behaviour; ret holds the   *)
(* call and what it returned.                                              *)

\* the characters the sanitizer's input strings are made of
Alphabet == {"a", "-", " ", "\t", "<", "\""}

\* the strings over Alphabet of length at most n
RECURSIVE StringsUpTo(_)
StringsUpTo(n) ==
    IF n = 0 THEN {<<>>}
    ELSE StringsUpTo(n - 1)
         \cup {Append(w, c) : w \in {v \in StringsUpTo(n - 1) : Len(v) = n - 1},
                              c \in Alphabet}

\* the operator examples of the README
OperatorQueries ==
    { <<"s", "i", "t", "e", ":", "d", "o", "m", "a", "i", "n", ".", "c", "o", "m">>,
      <<"f", "i", "l", "e", "t", "y", "p", "e", ":", "p", "d", "f">>,
      <<"i", "n", "t", "i", "t", "l", "e", ":", "k", "e", "y", "w", "o", "r", "d">>,
      <<"i", "n", "u", "r", "l", ":", "k", "e", "y", "w", "o", "r", "d">>,
      <<"\"", "e", "x", "a", "c", "t", " ", "p", "h", "r", "a", "s", "e", "\"">>,
      <<"k", "e", "y", "w", "o", "r", "d", "1", " ", "O", "R", " ", "k", "e", "y", "w", "o", "r", "d", "2">>,
      <<"k", "e", "y", "w", "o", "r", "d", " ", "-", "e", "x", "c", "l", "u", "d", "e">> }

SanitizerInputs ==
    StringsUpTo(MaxStringLen) \cup OperatorQueries \cup {p.query.s : p \in WebInputs}

Repeat(c, n) == [i \in 1..n |-> c]

\* raw arguments of web_search / advanced_web_search
QueryValues ==
    {Undef, Num(1), Str(<<>>), Str(<<" ">>), Str(<<"a">>), Str(<<" ", "a", " ">>),
     Str(Repeat("a", MaxQueryLen)), Str(Repeat("a", MaxQueryLen + 1))}
MaxResultsValues ==
    {Undef, Null, Str(<<"5">>), Frac(1), Num(-1), Num(0), Num(1), Num(MaxResults),
     Num(MaxResults + 1)}
RegionValues ==
    {Undef, Num(1), Str(<<"u", "s">>), Str(<<"U", "S">>), Str(<<"u", "s", "a">>)}
SafeSearchValues == {Undef, Bool(TRUE), Str(<<"a">>)}
SiteValues == {Undef, Str(<<" ">>), Str(<<" ", "x", ".", "c">>)}
FileTypeValues == {Undef, Str(<<"P", "D", "F">>), Str(<<"e", "x", "e">>)}
DateRangeValues == {Undef, Str(PastYear), Str(<<"n", "o">>)}

NonObjects == {NullParams, UndefParams, [NoFields EXCEPT !.t = "str"]}

SearchRaw ==
    NonObjects \cup
    { [NoFields EXCEPT !.query = q, !.max_results = m, !.region = r,
                       !.safe_search = ss, !.site_restrict = st,
                       !.file_type = ft, !.date_range = dr] :
        q \in QueryValues, m \in MaxResultsValues, r \in RegionValues,
        ss \in SafeSearchValues, st \in SiteValues, ft \in FileTypeValues,
        dr \in DateRangeValues }

\* raw arguments of bulk_web_search
QueriesValues ==
    {Undef, Str(<<"a">>), Arr(<<NumElem>>), Arr(<<Elem(<<"a">>), Elem(<<" ">>)>>),
     Arr(<<Elem(<<" ", "a">>), Elem(<<"b", " ">>)>>),
     Arr(<<Elem(<<"a">>), Elem(<<"<", ">">>)>>)}
    \cup {Arr(Repeat(Elem(<<"a">>), n)) :
            n \in {0, 1, MaxBulkQueries - 1, MaxBulkQueries, MaxBulkQueries + 1,
                   MaxBulkQueries + 2}}
PerQueryValues ==
    {Undef, Frac(1), Num(0), Num(1), Num(MaxResultsPerQuery),
     Num(MaxResultsPerQuery + 1)}

BulkRaw ==
    NonObjects \cup
    { [NoFields EXCEPT !.queries = qs, !.max_results_per_query = m,
                       !.region = r, !.safe_search = ss] :
        qs \in QueriesValues, m \in PerQueryValues, r \in RegionValues,
        ss \in SafeSearchValues }

\* SearchParams handed to advancedSearch
AdvancedParams ==
    { [NoFields EXCEPT !.query = Str(<<"a">>), !.max_results = m, !.region = r,
                       !.site_restrict = st, !.file_type = ft, !.date_range = dr] :
        m \in {Undef, Num(5)}, r \in {Undef, Str(<<"u", "s">>)},
        st \in {Undef, Str(<<"x", ".", "c">>)},
        ft \in {Undef, Str(<<"p", "d", "f">>)},
        dr \in {Undef, Str(PastDay), Str(PastWeek), Str(PastMonth), Str(PastYear),
                Str(<<"n", "o">>), Str(ConstructorKey)} }

\* arguments of web_search / advanced_web_search handed to a handler
HandlerInputs ==
    { [Q(q) EXCEPT !.site_restrict = st] :
        q \in {<<"a">>, <<"<", ">">>, <<"'", " ", "a">>, <<"<", "a", ">", " ", " ", "b">>},
        st \in {Undef, Str(<<"x", ".", "c">>)} }

\* process.env.RAPIDAPI_KEY: unset, or a string
ApiKeys ==
    {Undef, Str(<<>>), Str(Repeat("k", MinKeyLen - 1)), Str(Repeat("k", MinKeyLen))}

\* validateEnvironment: TRUE when it returns, FALSE when it throws
validateEnvironment(key) == Truthy(key) /\ ~(Len(key.s) < MinKeyLen)

\* the start of each entry point: TRUE when the services are constructed.
\* The stdio constructor calls validateEnvironment; initializeServices of the
\* Vercel handler and of the Next.js route test !process.env.RAPIDAPI_KEY.
initializeServices(ep, key) ==
    IF ep = "stdio" THEN validateEnvironment(key) ELSE Truthy(key)

Called(op, arg, val) == [op |-> op, arg |-> arg, val |-> val]

\* the entry point starts with the key and, if it started, takes a web_search
CallInitializeServices ==
    /\ ret = NoRet
    /\ \E key \in ApiKeys :
         LET ready == initializeServices(entry, key)
         IN ret' = Called("initializeServices", key,
                [ready |-> ready,
                 issue |-> ready /\ Dispatch(entry, "web_search", Q(<<"a">>),
                                             requests, now).issue])
    /\ UNCHANGED <<entry, now, requests, recorded, inv, callTimes>>

\* the first step of a web_search or advanced_web_search invocation on the
\* fresh limiter
CallSearchHandle ==
    /\ ret = NoRet
    /\ \E tool \in {"web_search", "advanced_web_search"}, params \in HandlerInputs :
         ret' = Called(tool, params, Dispatch(entry, tool, params, requests, now))
    /\ UNCHANGED <<entry, now, requests, recorded, inv, callTimes>>

CallSanitizeQuery ==
    /\ ret = NoRet
    /\ \E query \in SanitizerInputs :
         ret' = Called("sanitizeQuery", query, sanitizeQuery(query))
    /\ UNCHANGED <<entry, now, requests, recorded, inv, callTimes>>

CallValidateSearchParams ==
    /\ ret = NoRet
    /\ \E params \in SearchRaw :
         ret' = Called("validateSearchParams", params, validateSearchParams(params))
    /\ UNCHANGED <<entry, now, requests, recorded, inv, callTimes>>

CallValidateBulkSearchParams ==
    /\ ret = NoRet
    /\ \E params \in BulkRaw :
         ret' = Called("validateBulkSearchParams", params,
                       validateBulkSearchParams(params))
    /\ UNCHANGED <<entry, now, requests, recorded, inv, callTimes>>

\* advancedSearch up to its call of search(): the request search() sends
CallAdvancedSearch ==
    /\ ret = NoRet
    /\ \E params \in AdvancedParams :
         ret' = Called("advancedSearch", params,
                       [passed |-> advancedSearchParams(params),
                        sent |-> searchRequest(advancedSearchParams(params))])
    /\ UNCHANGED <<entry, now, requests, recorded, inv, callTimes>>

\* the first step of a bulk_web_search invocation on the fresh limiter
CallBulkHandle ==
    /\ ret = NoRet
    /\ \E params \in BulkRaw :
         ret' = Called("bulk_web_search", params,
                       Dispatch(entry, "bulk_web_search", params, requests, now))
    /\ UNCHANGED <<entry, now, requests, recorded, inv, callTimes>>

NextFunctions ==
    \/ CallSanitizeQuery
    \/ CallValidateSearchParams
    \/ CallValidateBulkSearchParams
    \/ CallAdvancedSearch
    \/ CallBulkHandle
    \/ CallSearchHandle
    \/ CallInitializeServices

SpecFunctions == Init /\ [][NextFunctions]_vars

----------------------------------------------------------------------------
(* Claims about the RateLimiter, under SpecLimiter *)

\* how many of the timestamps recorded so far are inside the window now
RecordedInWindow ==
    Cardinality({i \in 1..Len(recorded) : now - recorded[i] < WindowMs})

\* C3, as claimed: after any n calls of recordRequest made within windowMs,
\* 1 <= n <= maxRequests, a canMakeRequest that follows returns false; and
\* once windowMs has elapsed past the oldest of them it returns true again.
C3_DeniedUpToCapacity ==
    ret.op = "canMakeRequest" =>
        /\ ( /\ Len(recorded) >= 1
             /\ Len(recorded) <= MaxRequests
             /\ now - recorded[1] < WindowMs ) => ret.ok = FALSE
        /\ ( /\ Len(recorded) >= 1
             /\ Len(recorded) <= MaxRequests
             /\ now - recorded[1] >= WindowMs ) => ret.ok = TRUE

\* C3, amended: canMakeRequest returns false exactly when at least maxRequests
\* of the recorded timestamps are inside the window (so after n < maxRequests
\* records it returns true), and when at most maxRequests timestamps were
\* recorded and windowMs has elapsed past the oldest of them, it returns true.
C3_DeniedAtCapacity ==
    ret.op = "canMakeRequest" =>
        /\ (ret.ok = FALSE) <=> (RecordedInWindow >= MaxRequests)
        /\ ( /\ Len(recorded) >= 1
             /\ Len(recorded) <= MaxRequests
             /\ now - recorded[1] >= WindowMs ) => ret.ok = TRUE

\* C3 witness: maxRequests timestamps were recorded within one window, the
\* oldest is now windowMs old, and canMakeRequest has returned true again
C3_Witness ==
    /\ ret.op = "canMakeRequest"
    /\ ret.ok
    /\ Len(recorded) = MaxRequests
    /\ recorded[MaxRequests] - recorded[1] < WindowMs
    /\ now - recorded[1] >= WindowMs
    /\ now - recorded[MaxRequests] < WindowMs

\* C4, as claimed: with no new recordRequest call, whatever pruning calls are
\* made in between, the value of getTimeUntilReset never goes up; and it is
\* exactly 0 from the moment the oldest recorded timestamp is windowMs old.
C4_NonIncreasingUnderPruning ==
    /\ [][recorded' = recorded =>
            getTimeUntilReset(requests', now') <= getTimeUntilReset(requests, now)]_vars
    /\ [](recorded # <<>> /\ now - recorded[1] >= WindowMs
            => getTimeUntilReset(requests, now) = 0)

\* C4, amended: as long as the stored timestamps stay the same (no
\* recordRequest, no pruning call that removes one), the value of
\* getTimeUntilReset never goes up as the clock advances; and it is exactly 0
\* at every instant at which the oldest stored timestamp is windowMs old or
\* older.
C4_NonIncreasingBetweenPrunes ==
    /\ [][requests' = requests =>
            getTimeUntilReset(requests', now') <= getTimeUntilReset(requests, now)]_vars
    /\ [](requests # <<>> /\ now - MinOf(requests) >= WindowMs
            => getTimeUntilReset(requests, now) = 0)

\* C4 witness: getTimeUntilReset has returned 0 for a limiter that still
\* stores an expired timestamp together with one that is inside the window
C4_Witness ==
    /\ ret.op = "getTimeUntilReset"
    /\ ret.val = 0
    /\ Len(requests) >= 2
    /\ now - MinOf(requests) >= WindowMs
    /\ \E i \in 1..Len(requests) : now - requests[i] < WindowMs

----------------------------------------------------------------------------
(* Claims about the sanitizer and the validators, under SpecFunctions *)

\* the punctuation of the documented search operators
IsOperatorChar(c) == c \in {":", "-", "\""}

\* C11, as claimed: sanitizeQuery returns each documented operator example
\* intact, and keeps the operator punctuation (: - and the double quotes of an
\* exact phrase) of every query.
C11_OperatorsSurvive ==
    ret.op = "sanitizeQuery" =>
        /\ ret.arg \in OperatorQueries => ret.val = ret.arg
        /\ SelectSeq(ret.val, IsOperatorChar) = SelectSeq(ret.arg, IsOperatorChar)

IsKept(c) == ~IsDangerous(c) /\ ~IsSpace(c)

\* the positions of s that hold a character neither removed nor whitespace
KeptPositions(s) ==
    SelectSeq([i \in 1..Len(s) |-> i], LAMBDA i : IsKept(s[i]))

\* C12: the string sanitizeQuery returns holds no < > " ', no whitespace but
\* single spaces, none of them leading or trailing; its other characters are
\* those of the input in order; two of them that follow each other are
\* separated by one space exactly when whitespace stood between them in the
\* input; and sanitizing it again returns it unchanged.
C12_SanitizeQuery ==
    ret.op = "sanitizeQuery" =>
        LET raw == ret.arg
            out == ret.val
            kr == KeptPositions(raw)
            ko == KeptPositions(out)
        IN /\ \A i \in 1..Len(out) :
                  ~IsDangerous(out[i]) /\ (IsSpace(out[i]) => out[i] = " ")
           /\ out # <<>> => ~IsSpace(out[1]) /\ ~IsSpace(out[Len(out)])
           /\ Len(kr) = Len(ko)
           /\ \A m \in 1..Len(kr) : raw[kr[m]] = out[ko[m]]
           /\ \A m \in 1..(Len(kr) - 1) :
                  ko[m + 1] - ko[m] =
                      IF \E i \in (kr[m] + 1)..(kr[m + 1] - 1) : IsSpace(raw[i])
                      THEN 2 ELSE 1
           /\ sanitizeQuery(out) = out

\* C12 witness: an input with a tag and a run of two spaces came back with
\* the brackets removed and the run collapsed
C12_Witness ==
    /\ ret.op = "sanitizeQuery"
    /\ ret.arg = <<"<", "a", ">", " ", " ", "b">>
    /\ ret.val = <<"a", " ", "b">>

\* C14: a record one of the validators has returned is accepted by the same
\* validator and returned equal, field by field.
C14_ValidationIdempotent ==
    /\ (ret.op = "validateSearchParams" /\ ret.val.ok)
          => validateSearchParams(ret.val.v) = ret.val
    /\ (ret.op = "validateBulkSearchParams" /\ ret.val.ok)
          => validateBulkSearchParams(ret.val.v) = ret.val

\* C14 witness: an accepted input whose query, region-free fields and
\* file_type were changed by normalisation
C14_Witness ==
    /\ ret.op = "validateSearchParams"
    /\ ret.val.ok
    /\ ret.arg.query.s = <<" ", "a", " ">> /\ ret.val.v.query.s = <<"a">>
    /\ ret.arg.file_type.s = <<"P", "D", "F">>
    /\ ret.val.v.file_type.s = <<"p", "d", "f">>
    /\ ret.arg.region.s = <<"u", "s">>

\* an element of queries that is a string, not blank, of at most 500 characters
ValidQueryString(e) ==
    e.t = "str" /\ Trim(e.s) # <<>> /\ Len(e.s) <= MaxQueryLen

ReachesMaxResults(params) ==
    /\ params.t = "obj"
    /\ params.query.t = "str"
    /\ Trim(params.query.s) # <<>>
    /\ Len(params.query.s) <= MaxQueryLen
    /\ params.max_results.t # "undef"

\* C16: a present max_results is accepted, and returned unchanged, exactly
\* when it is an integer from 1 to 300; every other value is rejected on field
\* max_results.
C16_MaxResultsRange ==
    (ret.op = "validateSearchParams" /\ ReachesMaxResults(ret.arg)) =>
        IF /\ ret.arg.max_results.t = "num"
           /\ ret.arg.max_results.int
           /\ 1 <= ret.arg.max_results.n
           /\ ret.arg.max_results.n <= MaxResults
        THEN /\ ret.val.field # "max_results"
             /\ ret.val.ok => ret.val.v.max_results = ret.arg.max_results
        ELSE ~ret.val.ok /\ ret.val.field = "max_results"

\* C16 witness: max_results = 300 was accepted and returned as 300
C16_Witness ==
    /\ ret.op = "validateSearchParams"
    /\ ret.val.ok
    /\ ret.arg.max_results = Num(MaxResults)
    /\ ret.val.v.max_results = Num(MaxResults)

IsLetter(c) == \E i \in 1..26 : LowerLetters[i] = c \/ UpperLetters[i] = c

\* C17, as claimed: both validators accept a region of two letters in any
\* case and return it lowercased, and reject every other region string on
\* field region.
C17_RegionAnyCase ==
    ( /\ ret.op \in {"validateSearchParams", "validateBulkSearchParams"}
      /\ ret.arg.t = "obj"
      /\ ret.arg.region.t = "str" )
    => LET r == ret.arg.region.s
       IN IF Len(r) = 2 /\ IsLetter(r[1]) /\ IsLetter(r[2])
          THEN /\ ret.val.field # "region"
               /\ ret.val.ok => ret.val.v.region = Str(ToLowerCase(r))
          ELSE ~ret.val.ok

\* C18, as claimed: the q advancedSearch sends is params.query followed by
\* " site:<site_restrict>", " filetype:<file_type>" and the date fragment, each
\* only if its field is present (the date fragment only if the range is one of
\* the four recognised ones); the other params are passed through unchanged.
C18_ComposedQuery ==
    ret.op = "advancedSearch" =>
        LET p == ret.arg
            Fragment(dateRange) ==
                CASE dateRange = PastDay -> <<" ", "a", "f", "t", "e", "r", ":", "1", "d">>
                  [] dateRange = PastWeek -> <<" ", "a", "f", "t", "e", "r", ":", "1", "w">>
                  [] dateRange = PastMonth -> <<" ", "a", "f", "t", "e", "r", ":", "1", "m">>
                  [] dateRange = PastYear -> <<" ", "a", "f", "t", "e", "r", ":", "1", "y">>
                  [] OTHER -> <<>>
            composed ==
                p.query.s
                \o (IF p.site_restrict.t = "undef" THEN <<>>
                    ELSE <<" ", "s", "i", "t", "e", ":">> \o p.site_restrict.s)
                \o (IF p.file_type.t = "undef" THEN <<>>
                    ELSE <<" ", "f", "i", "l", "e", "t", "y", "p", "e", ":">>
                         \o p.file_type.s)
                \o (IF p.date_range.t = "undef" THEN <<>>
                    ELSE Fragment(p.date_range.s))
        IN /\ ret.val.sent.q = composed
           /\ ret.val.passed = [p EXCEPT !.query = Str(composed)]

\* C19, as claimed: every rejection of a validator names a field.
C19_FieldTagged ==
    ( /\ ret.op \in {"validateSearchParams", "validateBulkSearchParams"}
      /\ ~ret.val.ok )
    => ret.val.field # ""

\* the rules of validateSearchParams, each on its own
QueryMissing(p) == ~Truthy(p.query) \/ p.query.t # "str"
QueryBad(p) == Trim(p.query.s) = <<>> \/ Len(p.query.s) > MaxQueryLen
SiteBad(p) ==
    p.site_restrict.t # "undef"
    /\ (p.site_restrict.t # "str" \/ Trim(p.site_restrict.s) = <<>>)
MaxResultsBad(p) ==
    p.max_results.t # "undef"
    /\ (p.max_results.t # "num" \/ ~p.max_results.int
        \/ p.max_results.n < 1 \/ p.max_results.n > MaxResults)
FileTypeBad(p) ==
    p.file_type.t # "undef"
    /\ (p.file_type.t # "str" \/ ToLowerCase(p.file_type.s) \notin AllowedTypes)
DateRangeBad(p) ==
    p.date_range.t # "undef"
    /\ (p.date_range.t # "str" \/ p.date_range.s \notin AllowedRanges)
RegionBad(p) ==
    p.region.t # "undef" /\ (p.region.t # "str" \/ ~RegionPattern(p.region.s))

\* C20, as claimed: for an input record (its safe_search, which the sequence
\* does not place, being valid) that breaks one or more rules,
\* validateSearchParams reports the field of the earliest rule broken in the
\* sequence: required field, string fields, numeric fields, enumerated
\* fields, region.
C20_RuleSequence ==
    ( /\ ret.op = "validateSearchParams"
      /\ ret.arg.t = "obj"
      /\ SafeSearchError(ret.arg) = "" )
    => LET p == ret.arg
           first == IF QueryMissing(p) THEN "query"
                    ELSE IF QueryBad(p) THEN "query"
                    ELSE IF SiteBad(p) THEN "site_restrict"
                    ELSE IF MaxResultsBad(p) THEN "max_results"
                    ELSE IF FileTypeBad(p) THEN "file_type"
                    ELSE IF DateRangeBad(p) THEN "date_range"
                    ELSE IF RegionBad(p) THEN "region"
                    ELSE ""
       IN /\ ret.val.ok <=> first = ""
          /\ ret.val.field = first

----------------------------------------------------------------------------
(* Claims about the tool invocations, under Spec *)

Bulk(s) == inv[s].tool = "bulk_web_search"
NQueries(s) == Len(inv[s].vp.queries.items)

\* C1, as claimed: the provider calls issued by tool invocations inside any
\* trailing window never number more than the limiter's capacity.
C1_CallsWithinCapacity == Len(callTimes) <= MaxRequests

\* C2, as claimed: once an admitted bulk search over N queries has run, and
\* while every timestamp stored or recorded at its admission would still be
\* inside the window, getCurrentCount is at least N higher than at admission.
C2_BulkCountsAsN ==
    \A s \in Slots :
        ( /\ Bulk(s)
          /\ inv[s].pc = "done"
          /\ inv[s].validated
          /\ inv[s].result.success
          /\ inv[s].windowLeft > 0 )
        => getCurrentCount(requests, now).result >= inv[s].countBefore + NQueries(s)

\* C5: an invocation rejected by the rate check or by validation has issued
\* no provider call, and an invocation that has issued one has passed both.
C5_FailFast ==
    \A s \in Slots :
        /\ inv[s].outcome \in {"rate_limited", "validation_error"}
              => inv[s].issued = 0 /\ inv[s].inflight = {}
        /\ (inv[s].issued > 0 \/ inv[s].inflight # {})
              => inv[s].admitted /\ inv[s].validated

\* C5 witness: one invocation was rejected by the rate check without a call
\* while another, which passed both checks, has its call in flight
C5_Witness ==
    \E s, k \in Slots :
        /\ inv[s].pc = "done" /\ inv[s].outcome = "rate_limited"
        /\ inv[s].issued = 0
        /\ inv[k].inflight # {} /\ inv[k].validated

C7_FailureIsolation ==
    \A s \in Slots : (Bulk(s) /\ inv[s].validated /\ inv[s].pc = "done") =>
        /\ inv[s].result.success
        /\ Len(inv[s].result.searches) = NQueries(s)
        /\ \A k \in 1..Len(inv[s].result.searches) :
              IF inv[s].subs[k].success
              THEN /\ inv[s].result.searches[k].results = inv[s].subs[k].results
                   /\ inv[s].result.searches[k].total_results
                          = inv[s].subs[k].total_results
              ELSE /\ inv[s].result.searches[k].results = <<>>
                   /\ inv[s].result.searches[k].total_results = 0

\* C8, as claimed: a bulk search never pauses after its last call, and one
\* that has returned its list over N queries has paused N-1 times.
C8_PausesBetweenCalls ==
    \A s \in Slots : (Bulk(s) /\ inv[s].validated) =>
        /\ inv[s].pc = "delay" => Len(inv[s].searches) < NQueries(s)
        /\ (inv[s].pc = "done" /\ inv[s].result.success)
              => inv[s].pauses = NQueries(s) - 1

\* one second of the clock (scaled like WindowMs: the program divides by 1000)
SecondMs == 1

\* Math.ceil(a / b) for a >= 0, b > 0
CeilDiv(a, b) == (a + b - 1) \div b

\* the wait hint of a rate-limit rejection:
\* Math.ceil(this.rateLimiter.getTimeUntilReset() / 1000)
waitHint(reqs, t) == CeilDiv(getTimeUntilReset(reqs, t), SecondMs)

\* C13, as claimed: when an invocation has been rejected for rate limiting,
\* the same invocation issued again after the hinted number of seconds, with
\* the limiter as the rejection left it, is not rejected for rate limiting.
C13_RetryAfterHintAdmitted ==
    \A s \in Slots :
        (inv[s].pc = "done" /\ inv[s].outcome = "rate_limited") =>
            \A params \in InputsOf(inv[s].tool) :
                LET first == Dispatch(entry, inv[s].tool, params, requests, now)
                    later == now + waitHint(first.requests, now) * SecondMs
                IN first.outcome = "rate_limited" =>
                       Dispatch(entry, inv[s].tool, params, first.requests,
                                later).outcome # "rate_limited"

\* the two variants of an APIResponse
IsSuccessVariant(r) == r.success /\ r.hasData /\ ~r.hasError
IsFailureVariant(r) == ~r.success /\ r.hasError /\ r.message # "" /\ ~r.hasData

\* C9, as claimed: whatever the provider call did, the service call of an
\* invocation has resolved (not thrown) to one of the two variants.
C9_NoExceptionCrosses ==
    \A s \in Slots : (inv[s].pc = "done" /\ inv[s].issued > 0) =>
        /\ ~inv[s].result.threw
        /\ IsSuccessVariant(inv[s].result) \/ IsFailureVariant(inv[s].result)

\* C10, as claimed: the q of every provider request is free of < > " '.
C10_QuerySanitized ==
    \A c \in InFlight : \A i \in 1..Len(c.q) : ~IsDangerous(c.q[i])

\* C21, as claimed: an invocation whose provider call succeeded with zero
\* results is reported as a success, not as a failure; and in a bulk search
\* the entry of a sub-query that succeeded with zero results differs (in its
\* results or its total) from the entry of a sub-query that failed.
C21_EmptyDistinctFromFailure ==
    /\ \A s \in Slots :
          ( /\ ~Bulk(s) /\ inv[s].pc = "done" /\ inv[s].issued > 0
            /\ IsSuccessVariant(inv[s].result) )
          => Report(inv[s].result) \in {"empty", "results"}
    /\ \A s \in Slots : Bulk(s) =>
          \A k1, k2 \in 1..Len(inv[s].searches) :
              ( /\ inv[s].subs[k1].success
                /\ inv[s].subs[k1].results = <<>>
                /\ ~inv[s].subs[k2].success )
              => \/ inv[s].searches[k1].results # inv[s].searches[k2].results
                 \/ inv[s].searches[k1].total_results
                        # inv[s].searches[k2].total_results

\* C26, as claimed: a bulk search over N validated queries that has returned
\* has issued exactly N provider calls, and a web_search or
\* advanced_web_search that was admitted and has returned has issued exactly
\* one.
C26_OneCallPerQuery ==
    \A s \in Slots : (inv[s].pc = "done" /\ inv[s].validated) =>
        inv[s].issued = IF Bulk(s) THEN NQueries(s) ELSE 1

\* the timestamps the limiter stores that are inside the window now
InWindowCount == Cardinality({i \in 1..Len(requests) : now - requests[i] < WindowMs})

\* C28: whatever the interleaving of invocations, the limiter never holds
\* more than maxRequests timestamps that are inside the window.
C28_NoDoubleAdmission == InWindowCount <= MaxRequests

\* C28 witness: with two invocations in progress at once on a limiter holding
\* maxRequests in-window timestamps, one is waiting for its provider call and
\* the other was rejected for rate limiting
C28_Witness ==
    /\ InWindowCount = MaxRequests
    /\ \E s, k \in Slots :
          /\ ~Bulk(s) /\ inv[s].pc = "await" /\ inv[s].admitted
          /\ ~Bulk(k) /\ inv[k].pc = "done" /\ inv[k].outcome = "rate_limited"

\* C29: the first step of a web_search or advanced_web_search invocation
\* leaves in the limiter the in-window timestamps it held, in order, followed
\* by the time of the invocation exactly when the invocation was admitted and
\* its parameters were valid, and in that case its provider call is in
\* flight; the step in which the provider call settles, successfully or not,
\* leaves the limiter unchanged.
C29_RecordsWhenAdmittedAndValid ==
    [][\A s \in Slots :
          /\ ( /\ inv[s].pc = "idle"
               /\ inv'[s].pc # "idle"
               /\ inv'[s].tool \in {"web_search", "advanced_web_search"} )
             => LET kept == SelectSeq(requests, LAMBDA t : now - t < WindowMs)
                IN IF inv'[s].admitted /\ inv'[s].validated
                   THEN requests' = Append(kept, now) /\ inv'[s].inflight # {}
                   ELSE requests' = kept /\ inv'[s].inflight = {}
          /\ ( /\ inv[s].pc = "await"
               /\ inv[s].tool \in {"web_search", "advanced_web_search"}
               /\ inv'[s].pc = "done" )
             => requests' = requests]_vars

\* C29 witness: an admitted, valid invocation whose provider call failed has
\* returned, and its timestamp is the one the limiter holds
C29_Witness ==
    \E s \in Slots :
        /\ ~Bulk(s) /\ inv[s].pc = "done"
        /\ inv[s].admitted /\ inv[s].validated
        /\ IsFailureVariant(inv[s].result)
        /\ requests = <<now>>

\* the bulk requests that hold a list of queries
BulkLists == {params \in BulkInputs : params.t = "obj" /\ params.queries.t = "arr"}

\* C25, as claimed: a bulk_web_search request holding N queries is rejected
\* for rate limiting exactly when getCurrentCount() + N exceeds the threshold,
\* and is otherwise validated; the threshold is the limiter's capacity.
C25_BulkPreflight ==
    /\ BulkCapacity = MaxRequests
    /\ \A params \in BulkLists :
          LET h == Dispatch(entry, "bulk_web_search", params, requests, now)
              N == Len(params.queries.items)
          IN /\ h.outcome = "rate_limited" <=> InWindowCount + N > BulkCapacity
             /\ h.outcome # "rate_limited"
                   => (h.validated <=> validateBulkSearchParams(params).ok)

\* C25, amended: the rejection happens exactly when getCurrentCount() + E
\* exceeds the threshold, where E is N for a list of N >= 1 queries and 1 for
\* an empty list; otherwise the request is validated; the threshold is the
\* limiter's capacity.
C25_BulkPreflightEstimate ==
    /\ BulkCapacity = MaxRequests
    /\ \A params \in BulkLists :
          LET h == Dispatch(entry, "bulk_web_search", params, requests, now)
              N == Len(params.queries.items)
              E == IF N = 0 THEN 1 ELSE N
          IN /\ h.outcome = "rate_limited" <=> InWindowCount + E > BulkCapacity
             /\ h.outcome # "rate_limited"
                   => (h.validated <=> validateBulkSearchParams(params).ok)

\* C25 witness: a bulk invocation was rejected for rate limiting on a limiter
\* that holds fewer in-window timestamps than its capacity
C25_Witness ==
    \E s \in Slots :
        /\ Bulk(s) /\ inv[s].pc = "done" /\ inv[s].outcome = "rate_limited"
        /\ InWindowCount = MaxRequests - 1

\* C24 (under SpecLimiter): a call of canMakeRequest or getCurrentCount
\* leaves exactly the stored timestamps that are less than windowMs old, in
\* their order, adding none; canMakeRequest returns true exactly when fewer
\* than maxRequests are left, and getCurrentCount returns how many are left.
C24_PruneOnly ==
    [][ret'.op \in {"canMakeRequest", "getCurrentCount"} =>
          LET kept == SelectSeq(requests, LAMBDA t : now - t < WindowMs)
          IN /\ requests' = kept
             /\ \A i \in 1..Len(requests') : now - requests'[i] < WindowMs
             /\ Len(requests') <= Len(requests)
             /\ ret'.op = "canMakeRequest"
                   => (ret'.ok <=> Len(kept) < MaxRequests)
             /\ ret'.op = "getCurrentCount" => ret'.val = Len(kept)]_vars

\* C24 witness: canMakeRequest has pruned an expired timestamp, kept one that
\* is inside the window, and returned true
C24_Witness ==
    /\ ret.op = "canMakeRequest"
    /\ ret.ok
    /\ Len(recorded) = 2
    /\ requests = <<recorded[2]>>
    /\ now - recorded[1] >= WindowMs

\* C22, as claimed: with the API key missing or shorter than 10 characters
\* the entry point does not start: no tool invocation runs and no provider
\* call is issued.
C22_ShortKeyIsFatal ==
    ( /\ ret.op = "initializeServices"
      /\ (ret.arg.t = "undef" \/ Len(ret.arg.s) < 10) )
    => ~ret.val.ready /\ ~ret.val.issue

\* C23, as claimed: a validated search record whose input omitted max_results,
\* region or safe_search holds 10, "us" and true, and the provider request
\* made from it carries num=10, gl=us, safe=active; every sub-query of a bulk
\* request that omitted max_results_per_query is sent with num=10.
C23_DefaultsApplied ==
    /\ (ret.op = "validateSearchParams" /\ ret.val.ok) =>
          LET v == ret.val.v
              rq == searchRequest(v)
          IN /\ ret.arg.max_results.t = "undef"
                   => v.max_results = Num(10) /\ rq.num = 10
             /\ ret.arg.region.t = "undef"
                   => v.region = Str(<<"u", "s">>) /\ rq.gl = <<"u", "s">>
             /\ ret.arg.safe_search.t = "undef"
                   => v.safe_search = Bool(TRUE) /\ rq.safe = "active"
    /\ ( /\ ret.op = "validateBulkSearchParams" /\ ret.val.ok
         /\ ret.arg.max_results_per_query.t = "undef" ) =>
          \A j \in 1..Len(ret.val.v.queries.items) :
              searchRequest(bulkSubParams(ret.val.v, j)).num = 10

\* C27, as claimed: the q of every provider request an invocation is about
\* to make is non-empty, without leading or trailing whitespace and at most
\* 500 characters long.
C27_QueryStillValid ==
    ( /\ ret.op \in Tools
      /\ ret.val.issue )
    => \A j \in (IF ret.op = "bulk_web_search"
                 THEN 1..Len(ret.val.vp.queries.items) ELSE {1}) :
          LET q == searchRequest(callParams(ret.op, ret.val.vp, j)).q
          IN /\ q # <<>>
             /\ ~IsSpace(q[1]) /\ ~IsSpace(q[Len(q)])
             /\ Len(q) <= 500

\* C30, as claimed: a bulk_web_search request that validateBulkSearchParams
\* rejects is answered with that validation error, whatever the rate check
\* says and also when the request is null or undefined.
C30_ValidationErrorWins ==
    ( /\ ret.op = "bulk_web_search"
      /\ ~validateBulkSearchParams(ret.arg).ok )
    => ret.val.outcome = "validation_error"

====
